---- MODULE Spec2Model ----
(***************************************************************************)
(* Model of the Mira Soak Station configuration flow                       *)
(* (SoakStationConfigFlow in config_flow.py).                              *)
(*                                                                         *)
(* Two specifications share the state and the operators:                   *)
(*   - SpecFilter: the discovery step of one flow, stepped one iteration   *)
(*     of the loop of lines 54-58 at a time over a given scan result;      *)
(*   - Spec: sequences of async_step_user invocations on two flow          *)
(*     instances. A coroutine runs alone between two awaits: a discovery  *)
(*     step starts when scanner.discover (line 50) has returned, having    *)
(*     changed nothing before, and a selection step is suspended only at   *)
(*     the await of config_flow_pairing (line 76), where the other flow    *)
(*     can run. Each flow handles one invocation at a time.                *)
(* config_flow_pairing lives in mira/config_helper.py, which is not among  *)
(* the sources: its outcomes (an identity, a failure kind, the rejection   *)
(* of a call for an address with a session in flight) follow spec.md.      *)
(* Strings are sequences of one-character strings so that the substring    *)
(* test of line 56 is computed, not assumed.                               *)
(***************************************************************************)
EXTENDS Integers, Sequences, FiniteSets, TLC

\* ------------------------------------------------------------ bounds
\* longest scan result returned by scanner.discover
MaxScan == 2
\* number of credential slots of the device's slot table
MaxSlot == 2

\* ------------------------------------------------------------ values
Addresses == {"AA:BB", "CC:DD"}

\* advertised names seen in scans
NameMira1 == <<"M", "i", "r", "a", "1">>
NameXMira == <<"X", "M", "i", "r", "a">>
NameLower == <<"m", "i", "r", "a">>
NameMir == <<"M", "i", "r">>
NameEmpty == <<>>

AdvertisedNames == {NameMira1, NameXMira, NameLower, NameMir, NameEmpty}

\* a BLEDevice: name is None when has_name is FALSE
ScanDevices ==
    [address : Addresses, has_name : {TRUE}, name : AdvertisedNames]
        \cup [address : Addresses, has_name : {FALSE}, name : {NameEmpty}]

\* the results scanner.discover can return
Scans == UNION {[1 .. n -> ScanDevices] : n \in 0 .. MaxScan}

ClientIds == {"c1", "c2"}
Slots == 0 .. (MaxSlot - 1)

\* failure kinds a pairing call can raise once its session is open
SessionErrors == {"ConnectTimeout", "AuthRejected", "NoSlotsAvailable", "ConfirmationFailed"}

Flows == {"flow1", "flow2"}

\* ------------------------------------------------------------ strings
\* Python's `sub in s` for strings
Contains(sub, s) ==
    \E i \in 1 .. (Len(s) - Len(sub) + 1) : SubSeq(s, i, i + Len(sub) - 1) = sub

Marker == <<"M", "i", "r", "a">>
Unknown == <<"U", "n", "k", "n", "o", "w", "n">>

\* `device.name or "Unknown"`: None and the empty string are both falsy
NameOrUnknown(device) ==
    IF device.has_name /\ device.name # <<>> THEN device.name ELSE Unknown

\* ------------------------------------------------------------ dicts
EmptyDict == [a \in {} |-> <<>>]

\* d[key] = value
DictSet(d, key, value) ==
    [a \in (DOMAIN d) \cup {key} |-> IF a = key THEN value ELSE d[a]]

\* variant: an address already in the mapping keeps its first name
FilterDeviceKeepFirst(mira, device) ==
    LET name == NameOrUnknown(device)
    IN  IF Contains(Marker, name) /\ device.address \notin DOMAIN mira
        THEN DictSet(mira, device.address, name)
        ELSE mira

\* one iteration of the filter loop
FilterDevice(mira, device) ==
    LET name == NameOrUnknown(device)
    IN  IF Contains(Marker, name) THEN DictSet(mira, device.address, name) ELSE mira

\* ------------------------------------------------------------ state
VARIABLES
    devices,          \* the scan result held by the discovery step whose loop is being stepped
    loop_pos,         \* index into devices of the next loop iteration
    device_options,   \* per flow: self._device_options (bound: the attribute exists)
    pc,               \* per flow: "idle", "filter" (inside the loop of lines 54-58)
                      \* or "pairing" (suspended at the await of line 76)
    user_input,       \* per flow: argument of the current or last invocation
    mira_devices,     \* per flow: local mira_devices of the current or last invocation
    device_address,   \* per flow: local device_address
    device_name,      \* per flow: local device_name
    client_id,        \* per flow: local client_id
    client_slot,      \* per flow: local client_slot
    caught,           \* per flow: exception caught at line 78
    pairing_calls,    \* per flow: calls of config_flow_pairing made by the current or last invocation
    scan_calls,       \* per flow: calls of scanner.discover made by the current or last invocation
    result,           \* per flow: what the last invocation returned
    in_flight         \* addresses with an open pairing session

vars == <<devices, loop_pos, device_options, pc, user_input, mira_devices,
          device_address, device_name, client_id, client_slot, caught,
          pairing_calls, scan_calls, result, in_flight>>

NoInput == [given |-> FALSE, device |-> ""]
Selection(address) == [given |-> TRUE, device |-> address]

NoAddress == ""
NoName == <<>>
NoClientId == ""
NoSlot == -1
NoResult == [type |-> "none"]

\* ------------------------------------------------------------ flow results
async_abort(reason) == [type |-> "abort", reason |-> reason]

async_show_form(step_id, choices, errors) ==
    [type |-> "form", step_id |-> step_id, choices |-> choices, errors |-> errors]

show_selection_form(errors, mira) == async_show_form("user", mira, errors)

async_create_entry(title, data) ==
    [type |-> "create_entry", title |-> title, data |-> data]

Raised(exception) == [type |-> "raised", exception |-> exception]

NoErrors == {}

\* variant: the failure kind is put in the form's errors
SurfacedErrors(e) == {<<"base", e>>}

\* errors["base"] = "pairing_failed"
PairingFailedErrors(e) == {<<"base", "pairing_failed">>}

\* variant: the slot is a local default, not the one the pairing call returned
EntryDataLocalSlot(name, address, cid, slot) ==
    [device_name |-> name, device_address |-> address,
     client_id |-> cid, client_slot |-> 0]

EntryData(name, address, cid, slot) ==
    [device_name |-> name, device_address |-> address,
     client_id |-> cid, client_slot |-> slot]

\* ------------------------------------------------------------ init
Init ==
    /\ devices = <<>>
    /\ loop_pos = 1
    /\ device_options = [f \in Flows |-> [bound |-> FALSE, value |-> EmptyDict]]
    /\ pc = [f \in Flows |-> "idle"]
    /\ user_input = [f \in Flows |-> NoInput]
    /\ mira_devices = [f \in Flows |-> EmptyDict]
    /\ device_address = [f \in Flows |-> NoAddress]
    /\ device_name = [f \in Flows |-> NoName]
    /\ client_id = [f \in Flows |-> NoClientId]
    /\ client_slot = [f \in Flows |-> NoSlot]
    /\ caught = [f \in Flows |-> "none"]
    /\ pairing_calls = [f \in Flows |-> 0]
    /\ scan_calls = [f \in Flows |-> 0]
    /\ result = [f \in Flows |-> NoResult]
    /\ in_flight = {}

\* entry of async_step_user: the locals of lines 43-44 and nothing else yet
Enter(f, input) ==
    /\ user_input' = [user_input EXCEPT ![f] = input]
    /\ caught' = [caught EXCEPT ![f] = "none"]
    /\ client_id' = [client_id EXCEPT ![f] = NoClientId]
    /\ client_slot' = [client_slot EXCEPT ![f] = NoSlot]

\* variant: the emptiness test of line 60 is missing, the form is shown
AbortNoDevicesShowsForm(f, mira) ==
    /\ DOMAIN mira = {}
    /\ result' = [result EXCEPT ![f] = show_selection_form(NoErrors, mira)]
    /\ UNCHANGED device_options

\* ------------------------------------------------------------ discovery step
\* lines 60-62: no candidate, abort
AbortNoDevices(f, mira) ==
    /\ DOMAIN mira = {}
    /\ result' = [result EXCEPT ![f] = async_abort("no_devices_found")]
    /\ UNCHANGED device_options

\* lines 64-66: store the candidates and show the form
StoreAndShow(f, mira) ==
    /\ DOMAIN mira # {}
    /\ device_options' = [device_options EXCEPT ![f] = [bound |-> TRUE, value |-> mira]]
    /\ result' = [result EXCEPT ![f] = show_selection_form(NoErrors, mira)]

\* no flow is inside the synchronous loop of lines 54-58: between two awaits a
\* coroutine runs alone on the event loop
LoopFree == \A g \in Flows : pc[g] # "filter"

\* lines 47-51 of async_step_user(None): scanner.discover has returned
DiscoverStart(f) ==
    /\ LoopFree
    /\ pc[f] = "idle"
    /\ Enter(f, NoInput)
    /\ pc' = [pc EXCEPT ![f] = "filter"]
    /\ loop_pos' = 1
    /\ mira_devices' = [mira_devices EXCEPT ![f] = EmptyDict]
    /\ scan_calls' = [scan_calls EXCEPT ![f] = 1]
    /\ pairing_calls' = [pairing_calls EXCEPT ![f] = 0]
    /\ device_address' = [device_address EXCEPT ![f] = NoAddress]
    /\ device_name' = [device_name EXCEPT ![f] = NoName]
    /\ result' = [result EXCEPT ![f] = NoResult]
    /\ UNCHANGED <<device_options, in_flight, devices>>

\* lines 54-58: one iteration of the loop, on `device`
LoopBody(f, device) ==
    /\ mira_devices' = [mira_devices EXCEPT ![f] = FilterDevice(mira_devices[f], device)]
    /\ loop_pos' = loop_pos + 1
    /\ UNCHANGED <<devices, device_options, pc, user_input, device_address, device_name,
                   client_id, client_slot, caught, pairing_calls, scan_calls, result,
                   in_flight>>

\* lines 60-66: after the loop
LoopExit(f) ==
    /\ \/ AbortNoDevices(f, mira_devices[f])
       \/ StoreAndShow(f, mira_devices[f])
    /\ pc' = [pc EXCEPT ![f] = "idle"]
    /\ loop_pos' = 1
    /\ UNCHANGED <<devices, user_input, mira_devices, device_address, device_name,
                   client_id, client_slot, caught, pairing_calls, scan_calls, in_flight>>

\* the next device of a scan result whose elements are not fixed in advance
DiscoverStep(f) ==
    /\ pc[f] = "filter"
    /\ loop_pos <= MaxScan
    /\ \E device \in ScanDevices : LoopBody(f, device)

\* the scan result is exhausted
DiscoverEnd(f) ==
    /\ pc[f] = "filter"
    /\ LoopExit(f)

\* ------------------------------------------------------------ the loop over a given scan
FilterFlow == "flow1"

\* the discovery step of one flow, scanner.discover having returned `devices`
InitFilter ==
    /\ devices \in Scans
    /\ loop_pos = 1
    /\ device_options = [f \in Flows |-> [bound |-> FALSE, value |-> EmptyDict]]
    /\ pc = [f \in Flows |-> IF f = FilterFlow THEN "filter" ELSE "idle"]
    /\ user_input = [f \in Flows |-> NoInput]
    /\ mira_devices = [f \in Flows |-> EmptyDict]
    /\ device_address = [f \in Flows |-> NoAddress]
    /\ device_name = [f \in Flows |-> NoName]
    /\ client_id = [f \in Flows |-> NoClientId]
    /\ client_slot = [f \in Flows |-> NoSlot]
    /\ caught = [f \in Flows |-> "none"]
    /\ pairing_calls = [f \in Flows |-> 0]
    /\ scan_calls = [f \in Flows |-> IF f = FilterFlow THEN 1 ELSE 0]
    /\ result = [f \in Flows |-> NoResult]
    /\ in_flight = {}

FilterStep ==
    /\ pc[FilterFlow] = "filter"
    /\ loop_pos <= Len(devices)
    /\ LoopBody(FilterFlow, devices[loop_pos])

FilterEnd ==
    /\ pc[FilterFlow] = "filter"
    /\ loop_pos > Len(devices)
    /\ LoopExit(FilterFlow)

NextFilter == FilterStep \/ FilterEnd

SpecFilter == InitFilter /\ [][NextFilter]_vars

\* ------------------------------------------------------------ selection step
\* variant: no in-flight check
PairingAdmitsAlways(address) == TRUE

\* config_flow_pairing opens a session only for an address with none in flight
PairingAdmits(address) == address \notin in_flight

\* line 70 raises AttributeError: no discovery step has stored a mapping
SubmitUnbound(f) ==
    /\ LoopFree
    /\ pc[f] = "idle"
    /\ ~device_options[f].bound
    /\ \E address \in Addresses :
        /\ Enter(f, Selection(address))
        /\ device_address' = [device_address EXCEPT ![f] = address]
    /\ device_name' = [device_name EXCEPT ![f] = NoName]
    /\ mira_devices' = [mira_devices EXCEPT ![f] = EmptyDict]
    /\ scan_calls' = [scan_calls EXCEPT ![f] = 0]
    /\ pairing_calls' = [pairing_calls EXCEPT ![f] = 0]
    /\ result' = [result EXCEPT ![f] = Raised("AttributeError")]
    /\ UNCHANGED <<device_options, pc, in_flight, devices, loop_pos>>

\* variant: the lookup of line 70 falls back to a default name and pairing goes on
SubmitUnknownPairs(f) ==
    /\ LoopFree
    /\ pc[f] = "idle"
    /\ device_options[f].bound
    /\ \E address \in Addresses \ DOMAIN device_options[f].value :
        /\ PairingAdmits(address)
        /\ Enter(f, Selection(address))
        /\ device_address' = [device_address EXCEPT ![f] = address]
        /\ in_flight' = in_flight \cup {address}
    /\ device_name' = [device_name EXCEPT ![f] = Unknown]
    /\ mira_devices' = [mira_devices EXCEPT ![f] = EmptyDict]
    /\ scan_calls' = [scan_calls EXCEPT ![f] = 0]
    /\ pairing_calls' = [pairing_calls EXCEPT ![f] = 1]
    /\ pc' = [pc EXCEPT ![f] = "pairing"]
    /\ result' = [result EXCEPT ![f] = NoResult]
    /\ UNCHANGED <<device_options, devices, loop_pos>>

\* line 70 raises KeyError: the address is no key of the stored mapping
SubmitUnknown(f) ==
    /\ LoopFree
    /\ pc[f] = "idle"
    /\ device_options[f].bound
    /\ \E address \in Addresses \ DOMAIN device_options[f].value :
        /\ Enter(f, Selection(address))
        /\ device_address' = [device_address EXCEPT ![f] = address]
    /\ device_name' = [device_name EXCEPT ![f] = NoName]
    /\ mira_devices' = [mira_devices EXCEPT ![f] = EmptyDict]
    /\ scan_calls' = [scan_calls EXCEPT ![f] = 0]
    /\ pairing_calls' = [pairing_calls EXCEPT ![f] = 0]
    /\ result' = [result EXCEPT ![f] = Raised("KeyError")]
    /\ UNCHANGED <<device_options, pc, in_flight, devices, loop_pos>>

\* variant: the handler does not return and the entry is created without an identity
PairingFailedFallsThrough(f, e, mira) ==
    /\ caught' = [caught EXCEPT ![f] = e]
    /\ result' = [result EXCEPT ![f] =
                    async_create_entry(device_name[f],
                        EntryData(device_name[f], device_address[f], NoClientId, NoSlot))]

\* lines 78-81: the except handler
PairingFailed(f, e, mira) ==
    /\ caught' = [caught EXCEPT ![f] = e]
    /\ result' = [result EXCEPT ![f] =
                    show_selection_form(PairingFailedErrors(e), mira)]

\* lines 69-76, config_flow_pairing rejecting the call at once
SubmitRejected(f) ==
    /\ LoopFree
    /\ pc[f] = "idle"
    /\ device_options[f].bound
    /\ \E address \in DOMAIN device_options[f].value :
        /\ ~PairingAdmits(address)
        /\ user_input' = [user_input EXCEPT ![f] = Selection(address)]
        /\ PairingFailed(f, "PairingInProgress", EmptyDict)
        /\ device_address' = [device_address EXCEPT ![f] = address]
        /\ device_name' = [device_name EXCEPT ![f] = device_options[f].value[address]]
    /\ client_id' = [client_id EXCEPT ![f] = NoClientId]
    /\ client_slot' = [client_slot EXCEPT ![f] = NoSlot]
    /\ mira_devices' = [mira_devices EXCEPT ![f] = EmptyDict]
    /\ scan_calls' = [scan_calls EXCEPT ![f] = 0]
    /\ pairing_calls' = [pairing_calls EXCEPT ![f] = 1]
    /\ UNCHANGED <<device_options, pc, in_flight, devices, loop_pos>>

\* lines 69-76, suspended at the await with the session open
SubmitAdmitted(f) ==
    /\ LoopFree
    /\ pc[f] = "idle"
    /\ device_options[f].bound
    /\ \E address \in DOMAIN device_options[f].value :
        /\ PairingAdmits(address)
        /\ Enter(f, Selection(address))
        /\ device_address' = [device_address EXCEPT ![f] = address]
        /\ device_name' = [device_name EXCEPT ![f] = device_options[f].value[address]]
        /\ in_flight' = in_flight \cup {address}
    /\ mira_devices' = [mira_devices EXCEPT ![f] = EmptyDict]
    /\ scan_calls' = [scan_calls EXCEPT ![f] = 0]
    /\ pairing_calls' = [pairing_calls EXCEPT ![f] = 1]
    /\ pc' = [pc EXCEPT ![f] = "pairing"]
    /\ result' = [result EXCEPT ![f] = NoResult]
    /\ UNCHANGED <<device_options, devices, loop_pos>>

\* lines 76-93: config_flow_pairing returns and the entry is created
PairingReturns(f) ==
    /\ LoopFree
    /\ pc[f] = "pairing"
    /\ \E cid \in ClientIds, slot \in Slots :
        /\ client_id' = [client_id EXCEPT ![f] = cid]
        /\ client_slot' = [client_slot EXCEPT ![f] = slot]
        /\ result' = [result EXCEPT ![f] =
                        async_create_entry(device_name[f],
                            EntryData(device_name[f], device_address[f], cid, slot))]
    /\ in_flight' = in_flight \ {device_address[f]}
    /\ pc' = [pc EXCEPT ![f] = "idle"]
    /\ UNCHANGED <<device_options, user_input, mira_devices, device_address, device_name,
                   caught, pairing_calls, scan_calls, devices, loop_pos>>

\* variant: a failed call is retried once before the handler runs
PairingRaisesRetry(f) ==
    /\ LoopFree
    /\ pc[f] = "pairing"
    /\ \/ /\ pairing_calls[f] < 2
          /\ pairing_calls' = [pairing_calls EXCEPT ![f] = pairing_calls[f] + 1]
          /\ UNCHANGED <<caught, result, in_flight, pc>>
       \/ /\ pairing_calls[f] >= 2
          /\ \E e \in SessionErrors : PairingFailed(f, e, mira_devices[f])
          /\ in_flight' = in_flight \ {device_address[f]}
          /\ pc' = [pc EXCEPT ![f] = "idle"]
          /\ UNCHANGED pairing_calls
    /\ UNCHANGED <<device_options, user_input, mira_devices, device_address, device_name,
                   client_id, client_slot, scan_calls, devices, loop_pos>>

\* variant: the handler stores its empty local mapping before showing the form
PairingRaisesStores(f) ==
    /\ LoopFree
    /\ pc[f] = "pairing"
    /\ \E e \in SessionErrors : PairingFailed(f, e, mira_devices[f])
    /\ device_options' = [device_options EXCEPT ![f] = [bound |-> TRUE, value |-> mira_devices[f]]]
    /\ in_flight' = in_flight \ {device_address[f]}
    /\ pc' = [pc EXCEPT ![f] = "idle"]
    /\ UNCHANGED <<user_input, mira_devices, device_address, device_name,
                   client_id, client_slot, pairing_calls, scan_calls, devices, loop_pos>>

\* lines 76-81: config_flow_pairing raises after its session was open
PairingRaises(f) ==
    /\ LoopFree
    /\ pc[f] = "pairing"
    /\ \E e \in SessionErrors : PairingFailed(f, e, mira_devices[f])
    /\ in_flight' = in_flight \ {device_address[f]}
    /\ pc' = [pc EXCEPT ![f] = "idle"]
    /\ UNCHANGED <<device_options, user_input, mira_devices, device_address, device_name,
                   client_id, client_slot, pairing_calls, scan_calls, devices, loop_pos>>

Next ==
    \E f \in Flows :
        \/ DiscoverStart(f)
        \/ DiscoverStep(f)
        \/ DiscoverEnd(f)
        \/ SubmitUnbound(f)
        \/ SubmitUnknown(f)
        \/ SubmitRejected(f)
        \/ SubmitAdmitted(f)
        \/ PairingReturns(f)
        \/ PairingRaises(f)

Spec == Init /\ [][Next]_vars

\* ------------------------------------------------------------ properties
\* the entry's advertised name contains the marker; an entry with no name advertises none
AdvertisesMira(device) == device.has_name /\ Contains(Marker, device.name)

\* the discovery step stepped over `devices` has returned
FilterDone == pc[FilterFlow] = "idle"

\* positions of the scan already looked at by the loop: all of them once it is done
Looked == IF FilterDone THEN 1 .. Len(devices) ELSE 1 .. (loop_pos - 1)

PairsOf(mira) == {<<a, mira[a]>> : a \in DOMAIN mira}

\* what flow f holds: its attribute, its position, its locals and its last result
FlowState(f) ==
    <<device_options[f], pc[f], user_input[f], mira_devices[f], device_address[f],
      device_name[f], client_id[f], client_slot[f], caught[f], pairing_calls[f],
      scan_calls[f], result[f]>>

\* the last invocation of f was a selection whose lookup at line 70 succeeds
LookupSucceeds(f) ==
    /\ user_input[f].given
    /\ device_options[f].bound
    /\ user_input[f].device \in DOMAIN device_options[f].value

\* C1, as stated: when the discovery step is done, the address/name pairs of the
\* mapping it built are exactly the address/name pairs of the scanned entries
\* whose advertised name contains "Mira", repeated addresses included.
C1_ExactlyMatchingEntries ==
    FilterDone =>
        PairsOf(mira_devices[FilterFlow]) =
            {<<devices[i].address, devices[i].name>> :
                i \in {j \in 1 .. Len(devices) : AdvertisesMira(devices[j])}}

\* C1, amended: at every point of the loop the keys of the mapping are exactly the
\* addresses of the entries looked at whose advertised name contains "Mira"
\* (case-sensitive, an entry with no name never matching), and each key is mapped
\* to the name of the last such entry with that address.
C1_LastMatchingEntryPerAddress ==
    LET mira == mira_devices[FilterFlow]
        matching(a) == {i \in Looked : devices[i].address = a /\ AdvertisesMira(devices[i])}
    IN  /\ DOMAIN mira = {a \in Addresses : matching(a) # {}}
        /\ \A a \in DOMAIN mira :
              \E i \in matching(a) :
                  /\ \A j \in matching(a) : j <= i
                  /\ mira[a] = devices[i].name

\* C1 witness: a scan with one address advertised twice under two matching names
\* has been filtered, and the mapping holds the second name.
C1_Witness ==
    /\ FilterDone
    /\ Len(devices) >= 2
    /\ devices[1].address = devices[2].address
    /\ AdvertisesMira(devices[1])
    /\ AdvertisesMira(devices[2])
    /\ devices[1].name # devices[2].name
    /\ mira_devices[FilterFlow][devices[2].address] = devices[2].name

\* C2: once the pairing call has returned (client_id, client_slot), the result is a
\* created entry whose data has exactly the four fields, client_id and client_slot
\* being the returned values, device_address the submitted address, and
\* device_name, also the title, the name the stored mapping has for that address.
C2_EntryHoldsReturnedIdentity ==
    \A f \in Flows :
        client_slot[f] # NoSlot =>
            /\ result[f].type = "create_entry"
            /\ DOMAIN result[f].data =
                  {"device_name", "device_address", "client_id", "client_slot"}
            /\ result[f].data.client_id = client_id[f]
            /\ result[f].data.client_slot = client_slot[f]
            /\ user_input[f].given
            /\ result[f].data.device_address = user_input[f].device
            /\ LookupSucceeds(f)
            /\ result[f].data.device_name = device_options[f].value[user_input[f].device]
            /\ result[f].title = result[f].data.device_name

\* C2 witness: an entry was created for "CC:DD" with identity ("c2", 1), the other
\* address being stored under another name.
C2_Witness ==
    \E f \in Flows :
        /\ result[f].type = "create_entry"
        /\ client_id[f] = "c2"
        /\ client_slot[f] = 1
        /\ user_input[f].device = "CC:DD"
        /\ DOMAIN device_options[f].value = Addresses
        /\ device_options[f].value["AA:BB"] # device_options[f].value["CC:DD"]

\* C3: when the discovery step is done and no scanned entry advertises a name
\* containing "Mira" (the empty scan included), its result is the abort with reason
\* "no_devices_found": no form, no entry, no pairing call and no open session.
C3_NoCandidateAborts ==
    (FilterDone /\ \A i \in 1 .. Len(devices) : ~AdvertisesMira(devices[i])) =>
        /\ result[FilterFlow] = [type |-> "abort", reason |-> "no_devices_found"]
        /\ pairing_calls[FilterFlow] = 0
        /\ in_flight = {}

\* C3 witness: a scan of two named devices, none a Mira, ended in the abort.
C3_Witness ==
    /\ FilterDone
    /\ Len(devices) = 2
    /\ \A i \in 1 .. 2 : devices[i].has_name /\ ~AdvertisesMira(devices[i])
    /\ result[FilterFlow].type = "abort"

\* C4: a failed pairing call leaves no entry and returns the selection form with
\* errors = {base: pairing_failed}; an entry exists only when no exception was
\* caught and the pairing call returned both a client id and a slot, which the entry holds.
C4_NoEntryOnFailure ==
    \A f \in Flows :
        /\ caught[f] # "none" =>
              /\ result[f].type = "form"
              /\ result[f].step_id = "user"
              /\ result[f].errors = {<<"base", "pairing_failed">>}
              /\ client_id[f] = NoClientId
              /\ client_slot[f] = NoSlot
        /\ result[f].type = "create_entry" =>
              /\ caught[f] = "none"
              /\ client_id[f] \in ClientIds
              /\ client_slot[f] \in Slots
              /\ result[f].data.client_id \in ClientIds
              /\ result[f].data.client_slot \in Slots

\* C4 witness: a pairing call whose session was open failed for want of a slot.
C4_Witness ==
    \E f \in Flows :
        /\ caught[f] = "NoSlotsAvailable"
        /\ result[f].type = "form"
        /\ pc[f] = "idle"

\* C5, as stated: every submission of a selection makes exactly one pairing call.
C5_EverySubmissionPairsOnce ==
    \A f \in Flows : user_input[f].given => pairing_calls[f] = 1

\* C5, amended: a submission whose address is a key of the stored mapping makes
\* exactly one pairing call, any other submission makes none, and once a call has
\* failed the flow is not awaiting another one: no call is retried.
C5_NoRetry ==
    \A f \in Flows :
        /\ user_input[f].given =>
              pairing_calls[f] = IF LookupSucceeds(f) THEN 1 ELSE 0
        /\ caught[f] # "none" => (pc[f] = "idle" /\ pairing_calls[f] = 1)

\* C5 witness: a submission whose pairing call failed after its session was open.
C5_Witness ==
    \E f \in Flows :
        /\ caught[f] \in SessionErrors
        /\ pairing_calls[f] = 1
        /\ pc[f] = "idle"

\* C6: two flows are never both awaiting a pairing call for the same address, and
\* a call made while a session for its address is open has failed at once with
\* PairingInProgress: the flow is not suspended and got the failure form.
C6_OneSessionPerAddress ==
    /\ \A f, g \in Flows :
          (f # g /\ pc[f] = "pairing" /\ pc[g] = "pairing") =>
              device_address[f] # device_address[g]
    /\ \A f \in Flows :
          caught[f] = "PairingInProgress" =>
              (pc[f] = "idle" /\ pairing_calls[f] = 1 /\ result[f].type = "form")
    /\ in_flight = {device_address[f] : f \in {g \in Flows : pc[g] = "pairing"}}

\* C6 witness: one flow awaits pairing for an address and the other flow's call
\* for the same address was rejected.
C6_Witness ==
    \E f, g \in Flows :
        /\ f # g
        /\ pc[f] = "pairing"
        /\ caught[g] = "PairingInProgress"
        /\ device_address[g] = device_address[f]

\* C7, as stated: two pairing attempts for the same address out of the same stored
\* mapping that fail for different reasons give different results.
C7_FailureKindsDistinguishable ==
    \A f, g \in Flows :
        (/\ caught[f] # "none"
         /\ caught[g] # "none"
         /\ caught[f] # caught[g]
         /\ device_options[f] = device_options[g]
         /\ user_input[f] = user_input[g]) =>
            result[f] # result[g]

\* C7, amended: the failure kind reaches async_step_user as the exception it
\* catches, and is not surfaced: two failed attempts give a form with the same
\* errors, {base: pairing_failed}, whatever their kinds.
C7_FailureKindsCollapsed ==
    \A f, g \in Flows :
        (caught[f] # "none" /\ caught[g] # "none") =>
            /\ result[f].type = "form"
            /\ result[g].type = "form"
            /\ result[f].errors = result[g].errors

\* C7 witness: two attempts failed, one on a connect timeout and one for want of a slot.
C7_Witness ==
    \E f, g \in Flows :
        /\ caught[f] = "ConnectTimeout"
        /\ caught[g] = "NoSlotsAvailable"

\* C8: a pairing call is made only with an address that is a key of the mapping a
\* discovery step of the same flow stored; an entry appears only in the step in
\* which the awaited pairing call for that address returns; a selection with no
\* stored mapping or with an address that is no key of it makes no pairing call
\* and creates no entry.
C8_PairingOnlyForDiscovered ==
    /\ [](\A f \in Flows :
            /\ pairing_calls[f] > 0 =>
                  (LookupSucceeds(f) /\ device_address[f] = user_input[f].device)
            /\ pc[f] = "pairing" =>
                  (pairing_calls[f] = 1 /\ device_address[f] \in in_flight)
            /\ result[f].type = "create_entry" =>
                  (pairing_calls[f] = 1 /\ client_slot[f] \in Slots
                      /\ result[f].data.device_address = device_address[f])
            /\ (user_input[f].given /\ ~LookupSucceeds(f)) =>
                  (pairing_calls[f] = 0 /\ pc[f] = "idle" /\ result[f].type = "raised"))
    /\ [][\A f \in Flows :
            (result'[f].type = "create_entry" /\ FlowState(f)' # FlowState(f)) =>
                (pc[f] = "pairing" /\ pc'[f] = "idle"
                    /\ result'[f].data.device_address = device_address[f])]_vars

\* C8 witness: a mapping is stored and a selection of an address that is no key of
\* it ended in the KeyError of line 70.
C8_Witness ==
    \E f \in Flows :
        /\ device_options[f].bound
        /\ user_input[f].given
        /\ user_input[f].device \notin DOMAIN device_options[f].value
        /\ result[f] = [type |-> "raised", exception |-> "KeyError"]

\* C9: every form the flow shows offers the non-empty mapping the flow has stored.
C9_FormOffersStoredMapping ==
    \A f \in Flows :
        result[f].type = "form" =>
            /\ device_options[f].bound
            /\ result[f].choices = device_options[f].value
            /\ DOMAIN result[f].choices # {}

\* C10: a step of a selection invocation leaves the stored mapping as it was and
\* makes no scan; a step of a discovery invocation makes no pairing call, opens no
\* session and creates no entry.
C10_StepFrames ==
    [][\A f \in Flows :
          FlowState(f)' # FlowState(f) =>
              /\ user_input'[f].given =>
                    (device_options'[f] = device_options[f] /\ scan_calls'[f] = 0)
              /\ ~user_input'[f].given =>
                    /\ pairing_calls'[f] = 0
                    /\ pc'[f] # "pairing"
                    /\ result'[f].type # "create_entry"
                    /\ in_flight' = in_flight]_vars

\* C10 witness: a selection failed and the mapping stored before it is still there.
C10_Witness ==
    \E f \in Flows :
        /\ caught[f] \in SessionErrors
        /\ device_options[f].bound
        /\ DOMAIN device_options[f].value # {}
        /\ scan_calls[f] = 0

====
